---- MODULE Spec2Model ----
(***************************************************************************)
(* A model of the todo list application of src/app.py: the Todo table,     *)
(* the SQLAlchemy session of a request, and the five JSON handlers         *)
(* (get_todos, add_todo, delete_todo, update_todo, get_ai_response).       *)
(*                                                                         *)
(* A string of the program is a sequence of one-character strings, so that *)
(* str.strip() and len() are computed.  A request is handled in one step:  *)
(* the handler's body, then the session's removal at the end of the        *)
(* request.  The outcome of db.session.commit(), of the SELECT of the list *)
(* and of the external generate_content call are inputs of the step.       *)
(***************************************************************************)
EXTENDS Integers, Sequences, FiniteSets, TLC

VARIABLES
    store,            \* the rows of the todo table: id -> [content, priority, created_at]
    session,          \* db.session: the pending operations of its unit of work
    GENAI_AVAILABLE,  \* the availability flag, set once at start-up
    req,              \* the request handled last
    resp,             \* the response to it
    generated,        \* calls of model.generate_content made while handling it
    commitFailed      \* db.session.commit() was called while handling it, and raised

vars == <<store, session, GENAI_AVAILABLE, req, resp, generated, commitFailed>>

(***************************************************************************)
(* Bounds.                                                                 *)
(***************************************************************************)
MaxId == 2        \* the largest id the table assigns; a request names an id up to MaxId + 1
MaxClock == 2     \* datetime.utcnow() takes the values 1..MaxClock
MaxRows == 3      \* rows of the tables SpecOrder starts from
MaxTime == 3      \* created_at of those rows is in 1..MaxTime

MaxContentLen == 200   \* db.String(200)

Times == 1..MaxClock

(***************************************************************************)
(* Strings.                                                                *)
(***************************************************************************)
Whitespace == {" "}

RECURSIVE LStrip(_)
LStrip(s) ==
    IF s # <<>> /\ Head(s) \in Whitespace THEN LStrip(Tail(s)) ELSE s

RECURSIVE RStrip(_)
RStrip(s) ==
    IF s # <<>> /\ s[Len(s)] \in Whitespace
    THEN RStrip(SubSeq(s, 1, Len(s) - 1))
    ELSE s

\* str.lstrip(): the trailing blanks stay.
StripLeft(s) == LStrip(s)

\* str.strip()
Strip(s) == RStrip(LStrip(s))

Repeat(c, n) == [i \in 1..n |-> c]

(***************************************************************************)
(* The Todo table and the session.                                         *)
(***************************************************************************)
Priorities == {"high", "medium", "low"}

DefaultPriority == "medium"

\* id = Column(Integer, primary_key=True) on SQLite: the row id of an INSERT
\* is one more than the largest row id in the table.
NewId(db) ==
    IF DOMAIN db = {} THEN 1
    ELSE (CHOOSE m \in DOMAIN db : \A k \in DOMAIN db : k <= m) + 1

EmptyTable == [k \in {} |-> 0]

Remove(db, id) == [k \in DOMAIN db \ {id} |-> db[k]]

\* The row rebuilt from the new content, its priority back at the default.
SetContentReset(todo, c) ==
    [content |-> c, priority |-> DefaultPriority, created_at |-> todo.created_at]

\* todo.content = new_content
SetContent(todo, c) == [todo EXCEPT !.content = c]

\* todo.priority = priority
SetPriority(todo, p) == [todo EXCEPT !.priority = p]

\* One pending operation of the unit of work.
PendingAdd(c, p, t) ==
    [kind |-> "add", id |-> 0, content |-> c, priority |-> p, created_at |-> t]
PendingDelete(id) ==
    [kind |-> "delete", id |-> id, content |-> <<>>, priority |-> "", created_at |-> 0]
PendingContent(id, c) ==
    [kind |-> "content", id |-> id, content |-> c, priority |-> "", created_at |-> 0]
PendingPriority(id, p) ==
    [kind |-> "priority", id |-> id, content |-> <<>>, priority |-> p, created_at |-> 0]

ApplyPending(db, o) ==
    CASE o.kind = "add" ->
            db @@ (NewId(db) :>
                [content |-> o.content, priority |-> o.priority,
                 created_at |-> o.created_at])
      [] o.kind = "delete" -> Remove(db, o.id)
      [] o.kind = "content" /\ o.id \in DOMAIN db ->
            [db EXCEPT ![o.id] = SetContent(db[o.id], o.content)]
      [] o.kind = "priority" /\ o.id \in DOMAIN db ->
            [db EXCEPT ![o.id] = SetPriority(db[o.id], o.priority)]
      [] OTHER -> db

\* The table with the session's pending operations written to it, in order.
RECURSIVE Flush(_, _)
Flush(db, sess) ==
    IF sess = <<>> THEN db ELSE Flush(ApplyPending(db, Head(sess)), Tail(sess))

\* A commit whose writes stay in the table when it raises.
CommitPartial(db, sess, ok) == Flush(db, sess)

\* db.session.commit(): the table afterwards.  A commit that raises leaves
\* the table as its transaction found it.
Commit(db, sess, ok) == IF ok THEN Flush(db, sess) ELSE db

\* db.session.rollback()
Rollback(sess) == <<>>

\* The session is removed when the request ends (db = SQLAlchemy(app)), and
\* what it had not committed goes with it.
shutdown_session(sess) == <<>>

\* A query of the session sees its pending operations (autoflush).
Query(db, sess) == Flush(db, sess)

(***************************************************************************)
(* Responses.  error is the text of the body's error field, "" when the    *)
(* body has none.                                                          *)
(***************************************************************************)
Ok(status, body) == [status |-> status, error |-> "", body |-> body]

Error(status, msg) == [status |-> status, error |-> msg, body |-> <<>>]

NotFoundMessage == "404 Not Found"

Result(db, sess, r, failed) ==
    [db |-> db, sess |-> sess, resp |-> r, commitFailed |-> failed]

(***************************************************************************)
(* Request bodies.  A body that is no JSON object (no body, a JSON array)  *)
(* has json = FALSE.  ckind, pkind and ikind say whether the key is        *)
(* absent, holds a string, or (content) holds a value that is no string.   *)
(***************************************************************************)
NoJson == [json |-> FALSE]

TodoBody(ckind, c, pkind, p) ==
    [json |-> TRUE, ckind |-> ckind, content |-> c, pkind |-> pkind, priority |-> p]

AssistantBody(ikind, i) == [json |-> TRUE, ikind |-> ikind, input |-> i]

\* data.get('content', '')
GetContent(body) == IF body.ckind = "absent" THEN <<>> ELSE body.content

\* data.get('priority', 'medium')
GetPriority(body) == IF body.pkind = "absent" THEN DefaultPriority ELSE body.priority

\* data.get('input', '')
GetInput(body) == IF body.ikind = "absent" THEN "" ELSE body.input

\* No check of the priority, as in add_todo.
AnyPriority(p) == TRUE

\* priority not in ['high', 'medium', 'low']
ValidPriority(p) == p \in Priorities

\* No check of the input.
NeverEmpty(i) == FALSE

\* not user_input
IsEmptyInput(i) == i = ""

(***************************************************************************)
(* The ordering of the list.                                               *)
(***************************************************************************)
\* The ranks the other way round.
PriorityRankLowFirst(p) ==
    CASE p = "high" -> 1
      [] p = "medium" -> 2
      [] p = "low" -> 3
      [] OTHER -> 0

\* case((priority == 'high', 3), (priority == 'medium', 2),
\*      (priority == 'low', 1), else_=0)
PriorityRank(p) ==
    CASE p = "high" -> 3
      [] p = "medium" -> 2
      [] p = "low" -> 1
      [] OTHER -> 0

\* order_by(priority_order.desc(), Todo.created_at.desc()): row a sorts
\* strictly before row b.
Precedes(a, b) ==
    \/ PriorityRank(a.priority) > PriorityRank(b.priority)
    \/ /\ PriorityRank(a.priority) = PriorityRank(b.priority)
       /\ a.created_at > b.created_at

\* The ids s with id put before the first one that id's row precedes.
RECURSIVE Insert(_, _, _)
Insert(db, s, id) ==
    IF s = <<>> THEN <<id>>
    ELSE IF Precedes(db[id], db[Head(s)]) THEN <<id>> \o s
    ELSE <<Head(s)>> \o Insert(db, Tail(s), id)

\* The ids of scan in the order of the ORDER BY clause.  scan is the order
\* in which the engine meets the rows; rows the clause does not separate
\* keep it.
RECURSIVE OrderBy(_, _)
OrderBy(db, scan) ==
    IF scan = <<>> THEN <<>>
    ELSE Insert(db, OrderBy(db, SubSeq(scan, 1, Len(scan) - 1)), scan[Len(scan)])

\* The orders in which the rows of db can be met.
Scans(db) ==
    {s \in [1..Cardinality(DOMAIN db) -> DOMAIN db] :
        \A i, j \in DOMAIN s : i # j => s[i] # s[j]}

\* sum(1 for todo in todos if todo.priority == p)
CountPriority(db, p) == Cardinality({k \in DOMAIN db : db[k].priority = p})

(***************************************************************************)
(* The handlers.  Each gives the table, the session and the response it    *)
(* leaves, and whether its commit raised.  A created_at is a number of the *)
(* clock; isoformat() keeps the order of two of them, and the response     *)
(* carries the number.                                                     *)
(***************************************************************************)
get_todos(db, sess, scan, ok) ==
    IF ~ok
    THEN \* except SQLAlchemyError
         Result(db, sess, Error(500, "SQLAlchemyError"), FALSE)
    ELSE
        LET rows == Query(db, sess)
            todos == OrderBy(rows, scan)
        IN  Result(db, sess,
                Ok(200,
                   [todos |-> [i \in DOMAIN todos |->
                        [id |-> todos[i],
                         content |-> rows[todos[i]].content,
                         priority |-> rows[todos[i]].priority,
                         created_at |-> rows[todos[i]].created_at]],
                    statistics |->
                        [total |-> Len(todos),
                         high_priority |-> CountPriority(rows, "high"),
                         medium_priority |-> CountPriority(rows, "medium"),
                         low_priority |-> CountPriority(rows, "low")]]),
                FALSE)

add_todo(db, sess, body, t, ok) ==
    IF ~body.json \/ body.ckind = "other"
    THEN \* data.get or .strip() raises: except Exception
         Result(db, Rollback(sess), Error(400, "exception"), FALSE)
    ELSE
        LET content == Strip(GetContent(body))
            priority == GetPriority(body)
            id == NewId(Query(db, sess))
            sess1 == Append(sess, PendingAdd(content, priority, t))
            db1 == Commit(db, sess1, ok)
        IN  IF content = <<>>
            THEN Result(db, sess, Error(400, "Content is required"), FALSE)
            ELSE IF ok
            THEN Result(db1, <<>>,
                    Ok(201, [id |-> id, content |-> db1[id].content,
                             priority |-> db1[id].priority]),
                    FALSE)
            ELSE \* except Exception
                 Result(db1, Rollback(sess1), Error(400, "SQLAlchemyError"), TRUE)

delete_todo(db, sess, todo_id, ok) ==
    IF todo_id \notin DOMAIN Query(db, sess)
    THEN \* get_or_404 raises NotFound: except Exception
         Result(db, Rollback(sess), Error(400, NotFoundMessage), FALSE)
    ELSE
        LET sess1 == Append(sess, PendingDelete(todo_id))
            db1 == Commit(db, sess1, ok)
        IN  IF ok
            THEN Result(db1, <<>>,
                    Ok(200, [message |-> "Todo deleted successfully"]), FALSE)
            ELSE \* except Exception
                 Result(db1, Rollback(sess1), Error(400, "SQLAlchemyError"), TRUE)

update_todo(db, sess, todo_id, body, ok) ==
    IF todo_id \notin DOMAIN Query(db, sess)
    THEN \* get_or_404 raises NotFound: except Exception
         Result(db, Rollback(sess), Error(400, NotFoundMessage), FALSE)
    ELSE IF ~body.json \/ body.ckind = "other"
    THEN \* 'content' in data or .strip() raises: except Exception
         Result(db, Rollback(sess), Error(400, "exception"), FALSE)
    ELSE
        LET hasContent == body.ckind # "absent"
            new_content == Strip(GetContent(body))
            sess1 == IF hasContent
                     THEN Append(sess, PendingContent(todo_id, new_content))
                     ELSE sess
            hasPriority == body.pkind # "absent"
            sess2 == IF hasPriority
                     THEN Append(sess1, PendingPriority(todo_id, body.priority))
                     ELSE sess1
            db1 == Commit(db, sess2, ok)
        IN  IF hasContent /\ new_content = <<>>
            THEN Result(db, sess, Error(400, "Content cannot be empty"), FALSE)
            ELSE IF hasPriority /\ ~ValidPriority(body.priority)
            THEN \* returns with todo.content already assigned
                 Result(db, sess1, Error(400, "Invalid priority value"), FALSE)
            ELSE IF ok
            THEN Result(db1, <<>>,
                    Ok(200, [id |-> todo_id, content |-> db1[todo_id].content,
                             priority |-> db1[todo_id].priority,
                             created_at |-> db1[todo_id].created_at]),
                    FALSE)
            ELSE \* except SQLAlchemyError
                 Result(db1, Rollback(sess2), Error(500, "SQLAlchemyError"), TRUE)

\* The response and the number of calls of model.generate_content.
get_ai_response(available, body, ok) ==
    IF ~available
    THEN [resp |-> Error(503, "AI assistant is not available"), calls |-> 0]
    ELSE IF ~body.json
    THEN \* data.get raises: except Exception
         [resp |-> Error(500, "exception"), calls |-> 0]
    ELSE IF IsEmptyInput(GetInput(body))
    THEN [resp |-> Error(400, "Empty input"), calls |-> 0]
    ELSE IF ok
    THEN [resp |-> Ok(200, [response |-> "text"]), calls |-> 1]
    ELSE \* generate_content or response.text raises: except Exception
         [resp |-> Error(500, "exception"), calls |-> 1]

(***************************************************************************)
(* Requests.                                                               *)
(***************************************************************************)
\* The values of a key: absent, or each of the strings (content: or a value
\* that is no string).
ContentChoices(strings) ==
    {[ckind |-> "absent", content |-> <<>>], [ckind |-> "other", content |-> <<>>]}
    \cup {[ckind |-> "string", content |-> c] : c \in strings}

PriorityChoices(strings) ==
    {[pkind |-> "absent", priority |-> ""]}
    \cup {[pkind |-> "string", priority |-> p] : p \in strings}

TodoBodies(contents, priorities) ==
    {NoJson} \cup
    {TodoBody(c.ckind, c.content, p.pkind, p.priority) :
        c \in ContentChoices(contents), p \in PriorityChoices(priorities)}

CreateBodies ==
    TodoBodies({<<>>, <<" ">>, <<"a">>, <<" ", "b", " ">>},
               {"high", "urgent"})

UpdateBodies ==
    TodoBodies({<<" ">>, <<" ", "b", " ">>}, {"high", "medium", "urgent"})

AssistantBodies ==
    {NoJson, AssistantBody("absent", ""), AssistantBody("string", ""),
     AssistantBody("string", "q")}

Ids == 1..(MaxId + 1)

Request(op, id, body) == [op |-> op, id |-> id, body |-> body]

NoRequest == Request("none", 0, NoJson)

NoResponse == Ok(0, <<>>)

\* No request is being handled: requests are handled one at a time.
Idle == req = NoRequest

\* The step of a handler that left r, in answer to request q.
Handled(q, r) ==
    /\ store' = r.db
    /\ session' = shutdown_session(r.sess)
    /\ req' = q
    /\ resp' = r.resp
    /\ commitFailed' = r.commitFailed
    /\ generated' = 0
    /\ UNCHANGED GENAI_AVAILABLE

GetTodos ==
    /\ Idle
    /\ \E scan \in Scans(Query(store, session)), ok \in BOOLEAN :
         Handled(Request("list", 0, NoJson), get_todos(store, session, scan, ok))

\* A create request with one of bodies.
Create(bodies) ==
    /\ Idle
    /\ \E body \in bodies, t \in Times, ok \in BOOLEAN :
         LET r == add_todo(store, session, body, t, ok)
         IN  /\ \A k \in DOMAIN r.db : k <= MaxId
             /\ Handled(Request("create", 0, body), r)

AddTodo == Create(CreateBodies)

DeleteTodo ==
    /\ Idle
    /\ \E id \in Ids, ok \in BOOLEAN :
         Handled(Request("delete", id, NoJson), delete_todo(store, session, id, ok))

UpdateTodo ==
    /\ Idle
    /\ \E id \in Ids, body \in UpdateBodies, ok \in BOOLEAN :
         Handled(Request("update", id, body),
                 update_todo(store, session, id, body, ok))

GetAiResponse ==
    /\ Idle
    /\ \E body \in AssistantBodies, ok \in BOOLEAN :
         LET r == get_ai_response(GENAI_AVAILABLE, body, ok)
         IN  /\ req' = Request("assistant", 0, body)
             /\ resp' = r.resp
             /\ generated' = r.calls
             /\ commitFailed' = FALSE
             /\ session' = shutdown_session(session)
             /\ UNCHANGED <<store, GENAI_AVAILABLE>>

\* The response leaves the server.
Deliver ==
    /\ ~Idle
    /\ req' = NoRequest
    /\ resp' = NoResponse
    /\ generated' = 0
    /\ commitFailed' = FALSE
    /\ UNCHANGED <<store, session, GENAI_AVAILABLE>>

Init ==
    /\ store = EmptyTable
    /\ session = <<>>
    /\ GENAI_AVAILABLE \in BOOLEAN
    /\ req = NoRequest
    /\ resp = NoResponse
    /\ generated = 0
    /\ commitFailed = FALSE

Next == GetTodos \/ AddTodo \/ DeleteTodo \/ UpdateTodo \/ GetAiResponse \/ Deliver

Spec == Init /\ [][Next]_vars

(***************************************************************************)
(* SpecOrder: the list of any table of at most MaxRows rows.  add_todo     *)
(* stores whatever priority string it is sent, so a row's priority is any  *)
(* string.                                                                 *)
(***************************************************************************)
StoredPriorities == Priorities \cup {"urgent"}

InitOrder ==
    /\ \E n \in 0..MaxRows :
         store \in [1..n -> [content : {<<"a">>}, priority : StoredPriorities,
                             created_at : 1..MaxTime]]
    /\ session = <<>>
    /\ GENAI_AVAILABLE = FALSE
    /\ req = NoRequest
    /\ resp = NoResponse
    /\ generated = 0
    /\ commitFailed = FALSE

NextOrder == GetTodos \/ Deliver

SpecOrder == InitOrder /\ [][NextOrder]_vars

(***************************************************************************)
(* SpecLen: create requests whose content is about MaxContentLen long.     *)
(***************************************************************************)
LongBodies ==
    TodoBodies({Repeat("a", MaxContentLen), Repeat("a", MaxContentLen + 1),
                <<" ">> \o Repeat("a", MaxContentLen) \o <<" ">>,
                <<" ">> \o Repeat("a", MaxContentLen + 1)},
               {"high"})

AddLongTodo == Create(LongBodies)

NextLen == AddLongTodo \/ DeleteTodo \/ GetTodos \/ Deliver

SpecLen == Init /\ [][NextLen]_vars

(***************************************************************************)
(* The claims.  In a step that handles a request, req' is the request,     *)
(* resp' the response, store the table before and store' the table after.  *)
(***************************************************************************)
IsBlank(s) == \A k \in DOMAIN s : s[k] = " "

\* c is s without its leading and trailing blanks.
IsTrimOf(c, s) ==
    /\ c = <<>> \/ (c[1] # " " /\ c[Len(c)] # " ")
    /\ \E i \in 0..Len(s) :
         /\ i + Len(c) <= Len(s)
         /\ SubSeq(s, i + 1, i + Len(c)) = c
         /\ IsBlank(SubSeq(s, 1, i))
         /\ IsBlank(SubSeq(s, i + Len(c) + 1, Len(s)))

OthersUnchanged(id) ==
    \A k \in DOMAIN store \ {id} : k \in DOMAIN store' /\ store'[k] = store[k]

\* C1: every persisted Task has a non-empty content and a priority that is
\* one of 'high', 'medium', 'low'.
C1_PersistedTasksValid ==
    \A k \in DOMAIN store :
        /\ store[k].content # <<>>
        /\ store[k].priority \in {"high", "medium", "low"}

\* C2: an Update of an existing Task whose supplied priority is not one of
\* 'high', 'medium', 'low' is answered with status 400 and an error, leaves
\* the table as it was and leaves nothing pending in the session, whatever
\* content the same request supplies.
C2_InvalidPriorityUpdateRejected ==
    [][(/\ req'.op = "update"
        /\ req'.id \in DOMAIN store
        /\ req'.body.json
        /\ req'.body.pkind = "string"
        /\ req'.body.priority \notin {"high", "medium", "low"})
       => (/\ resp'.status = 400
           /\ resp'.error # ""
           /\ store' = store
           /\ session' = <<>>)]_vars

\* An Update with a new non-empty content and the priority 'urgent' was
\* refused, and the Task does not hold that content.
C2_Witness ==
    /\ req.op = "update"
    /\ req.body.json
    /\ req.body.ckind = "string"
    /\ req.body.pkind = "string"
    /\ req.body.priority = "urgent"
    /\ req.id \in DOMAIN store
    /\ resp.status = 400
    /\ \E k \in DOMAIN req.body.content : req.body.content[k] # " "
    /\ ~IsTrimOf(store[req.id].content, req.body.content)

\* C3: a Delete or Update for an id that is not in the table is answered
\* with status 404 and an error, and leaves the table as it was.
C3_MissingIdIsNotFound ==
    [][(req'.op \in {"delete", "update"} /\ req'.id \notin DOMAIN store)
       => (resp'.status = 404 /\ resp'.error # "" /\ store' = store)]_vars

C4Rank(p) ==
    IF p = "high" THEN 3 ELSE IF p = "medium" THEN 2 ELSE IF p = "low" THEN 1 ELSE 0

\* C4: the List response holds every stored Task exactly once, and for any
\* two Tasks a before b in it, rank(a) > rank(b), or rank(a) = rank(b) and
\* created_at(a) >= created_at(b), with high=3, medium=2, low=1, other=0.
C4_ListOrdered ==
    (req.op = "list" /\ resp.status = 200) =>
        LET todos == resp.body.todos
        IN  /\ Len(todos) = Cardinality(DOMAIN store)
            /\ \A k \in DOMAIN store :
                 \E i \in DOMAIN todos :
                    todos[i] = [id |-> k, content |-> store[k].content,
                                priority |-> store[k].priority,
                                created_at |-> store[k].created_at]
            /\ \A i, j \in DOMAIN todos :
                 i < j =>
                    \/ C4Rank(todos[i].priority) > C4Rank(todos[j].priority)
                    \/ /\ C4Rank(todos[i].priority) = C4Rank(todos[j].priority)
                       /\ todos[i].created_at >= todos[j].created_at

\* A list of three Tasks: two of one priority created at different times,
\* the newer first, before a Task of an unrecognised priority.
C4_Witness ==
    /\ req.op = "list"
    /\ resp.status = 200
    /\ Len(resp.body.todos) = 3
    /\ resp.body.todos[1].priority = "low"
    /\ resp.body.todos[2].priority = "low"
    /\ resp.body.todos[1].created_at > resp.body.todos[2].created_at
    /\ resp.body.todos[1].id < resp.body.todos[2].id
    /\ resp.body.todos[3].priority = "urgent"

\* C5: in every List response, total = high_priority + medium_priority +
\* low_priority, and total is the number of Tasks returned.
C5_StatisticsAddUp ==
    (req.op = "list" /\ resp.status = 200) =>
        LET st == resp.body.statistics
        IN  /\ st.total = Len(resp.body.todos)
            /\ st.total = st.high_priority + st.medium_priority + st.low_priority

\* C6: a successful Create adds exactly one Task, under an id no stored Task
\* held, whose content is the submitted content without its leading and
\* trailing blanks and whose priority is the submitted one, or 'medium'
\* when none was submitted; a Create whose content is missing, empty or
\* blank is answered with status 400 and adds nothing.
C6_CreateStoresSubmitted ==
    [][(req'.op = "create") =>
        /\ (resp'.status = 201) =>
              /\ req'.body.json
              /\ req'.body.ckind = "string"
              /\ \E id \in DOMAIN store' \ DOMAIN store :
                    /\ DOMAIN store' = DOMAIN store \cup {id}
                    /\ OthersUnchanged(id)
                    /\ resp'.body.id = id
                    /\ IsTrimOf(store'[id].content, req'.body.content)
                    /\ store'[id].content = resp'.body.content
                    /\ store'[id].priority =
                          IF req'.body.pkind = "string"
                          THEN req'.body.priority ELSE "medium"
        /\ (/\ req'.body.json
            /\ \/ req'.body.ckind = "absent"
               \/ req'.body.ckind = "string" /\ IsBlank(req'.body.content))
           => (resp'.status = 400 /\ resp'.error # "" /\ store' = store)]_vars

\* A Create of content with blanks around it and no priority succeeded, and
\* the new Task has the priority 'medium'.
C6_Witness ==
    /\ req.op = "create"
    /\ resp.status = 201
    /\ req.body.pkind = "absent"
    /\ req.body.content[1] = " "
    /\ resp.body.id \in DOMAIN store
    /\ store[resp.body.id].priority = "medium"
    /\ Cardinality(DOMAIN store) = 2

\* C7: a Create whose trimmed content is 201 characters long is answered
\* with a client error and stores nothing, one of 200 succeeds, and no
\* persisted Task has a content longer than 200 characters.
C7_ContentAtMost200 ==
    /\ \A k \in DOMAIN store : Len(store[k].content) <= 200
    /\ (req.op = "create" /\ req.body.json /\ req.body.ckind = "string") =>
          LET n == Len(Strip(req.body.content))
          IN  /\ (n = 201) => resp.status = 400
              /\ (n = 200 /\ ~commitFailed) => resp.status = 201

\* C8: no Update changes the ids or any created_at; a successful one keeps
\* each field of {content, priority} its body does not supply, and leaves
\* every other Task as it was.
C8_UpdateChangesOnlySupplied ==
    [][(req'.op = "update") =>
        /\ DOMAIN store' = DOMAIN store
        /\ \A k \in DOMAIN store : store'[k].created_at = store[k].created_at
        /\ (resp'.status = 200) =>
              /\ req'.body.json
              /\ req'.id \in DOMAIN store
              /\ OthersUnchanged(req'.id)
              /\ resp'.body.id = req'.id
              /\ (req'.body.ckind = "absent") =>
                    store'[req'.id].content = store[req'.id].content
              /\ (req'.body.pkind = "absent") =>
                    store'[req'.id].priority = store[req'.id].priority]_vars

\* An Update that supplied only a content succeeded on a Task whose
\* priority is not the default, with another Task in the table.
C8_Witness ==
    /\ req.op = "update"
    /\ resp.status = 200
    /\ req.body.ckind = "string"
    /\ req.body.pkind = "absent"
    /\ store[req.id].priority # "medium"
    /\ Cardinality(DOMAIN store) = 2

\* The input of an Assistant request is empty: the body is a JSON object
\* with no input, or with the input "".
EmptyInput(body) == body.json /\ (body.ikind = "absent" \/ body.input = "")

C10_FailedCommitRollsBack ==
    [][commitFailed' =>
        /\ req'.op \in {"create", "update", "delete"}
        /\ store' = store
        /\ session' = <<>>
        /\ resp'.status \in {400, 500}
        /\ resp'.error # ""]_vars

\* The commit of an Update that supplied a new content and a new priority
\* failed.
C10_Witness ==
    /\ commitFailed
    /\ req.op = "update"
    /\ req.body.ckind = "string"
    /\ req.body.pkind = "string"
    /\ resp.status = 500
    /\ store[req.id].priority # req.body.priority
    /\ ~IsTrimOf(store[req.id].content, req.body.content)

====
